---- MODULE Spec2Model ----
(***************************************************************************)
(* A model of the CHIP-8 emulator: the CPU (src/src/cpu.js), the renderer  *)
(* (src/src/renderer.js), the keyboard (src/unnamed/part_000) and the      *)
(* speaker (src/src/speaker.js).                                           *)
(*                                                                         *)
(* JavaScript values that are not numbers are written as negative          *)
(* integers (no register, address or pixel index of the program is         *)
(* negative unless setPixel is handed a negative coordinate, and the       *)
(* sentinels are never used as coordinates).                               *)
(***************************************************************************)
EXTENDS Integers, Sequences, FiniteSets, TLC

\* The value `undefined`: a read past the end of a typed array, a hole of an
\* Array, Array.prototype.pop on an empty array, a KEYMAP miss.
Undefined == -1000001
\* The value NaN: undefined + 2.
NaN == -1000002

IsNumber(n) == n # Undefined /\ n # NaN

\* ------------------------------------------------------------------ numbers

\* JavaScript's a + b on numbers and undefined.
JsAdd(a, b) == IF IsNumber(a) /\ IsNumber(b) THEN a + b ELSE NaN

\* ToInt32 / ToUint8 of undefined and NaN is 0.
ToInt(n) == IF IsNumber(n) THEN n ELSE 0

\* A store into a Uint8Array element: the value modulo 2^8.
ToUint8(n) == ToInt(n) % 256

RECURSIVE BitAnd(_, _)
\* a & b on non-negative integers.
BitAnd(a, b) ==
    IF a = 0 \/ b = 0 THEN 0
    ELSE (IF a % 2 = 1 /\ b % 2 = 1 THEN 1 ELSE 0) + 2 * BitAnd(a \div 2, b \div 2)

RECURSIVE BitOr(_, _)
\* a | b on non-negative integers.
BitOr(a, b) ==
    IF a = 0 THEN b
    ELSE IF b = 0 THEN a
    ELSE (IF a % 2 = 1 \/ b % 2 = 1 THEN 1 ELSE 0) + 2 * BitOr(a \div 2, b \div 2)

RECURSIVE BitXor(_, _)
\* a ^ b on non-negative integers.
BitXor(a, b) ==
    IF a = 0 THEN b
    ELSE IF b = 0 THEN a
    ELSE (IF a % 2 # b % 2 THEN 1 ELSE 0) + 2 * BitXor(a \div 2, b \div 2)

\* ---------------------------------------------------------------- constants

\* new Uint8Array(16): the number of bytes the constructor allocates.
MemorySize == 16
\* The address programs are loaded at and the initial program counter.
ProgramStart == 512
\* this.speed: instructions per cycle.
Speed == 10
\* Renderer.cols and Renderer.rows.
Cols == 64
Rows == 32

\* The 80 bytes of the font table.
sprites ==
    << 240, 144, 144, 144, 240,
        32,  96,  32,  32, 112,
       240,  16, 240, 128, 240,
       240,  16, 240,  16, 240,
       144, 144, 240,  16,  16,
       240, 128, 240,  16, 240,
       240, 128, 240, 144, 240,
       240,  16,  32,  64,  64,
       240, 144, 240, 144, 240,
       240, 144, 240,  16, 240,
       240, 144, 240, 144, 144,
       224, 144, 224, 144, 224,
       240, 128, 128, 128, 240,
       224, 144, 144, 144, 224,
       240, 128, 240, 128, 240,
       240, 128, 240, 128, 128 >>

\* Keyboard.KEYMAP: event.which -> key value; a code it does not hold maps to
\* undefined.
KEYMAP(which) ==
    CASE which = 49 -> 1  [] which = 50 -> 2  [] which = 51 -> 3  [] which = 52 -> 12
      [] which = 81 -> 4  [] which = 87 -> 5  [] which = 69 -> 6  [] which = 82 -> 13
      [] which = 65 -> 7  [] which = 83 -> 8  [] which = 68 -> 9  [] which = 70 -> 14
      [] which = 90 -> 10 [] which = 88 -> 0  [] which = 67 -> 11 [] which = 86 -> 15
      [] OTHER -> Undefined

\* The key codes KEYMAP holds.
MappedCodes == {49, 50, 51, 52, 81, 87, 69, 82, 65, 83, 68, 70, 90, 88, 67, 86}

\* The value null: Keyboard.onNextKeyPress when no key-wait is pending.
Null == -1000003

\* ------------------------------------------------------------ memory, arrays

\* this.memory[a]: undefined outside the allocated bytes.
MemRead(memory, a) == IF a \in DOMAIN memory THEN memory[a] ELSE Undefined

\* this.memory[a] = val: a store outside a typed array's bounds is dropped.
MemWrite(memory, a, val) ==
    IF a \in DOMAIN memory THEN [memory EXCEPT ![a] = ToUint8(val)] ELSE memory

\* array[k] of an Array with holes (the display, keysPressed).
ArrayRead(arr, k) == IF k \in DOMAIN arr THEN arr[k] ELSE Undefined

\* array[k] = val on an Array: any index (or property name) is kept.
ArrayWrite(arr, k, val) == (k :> val) @@ arr

\* new Array(n): every slot a hole.
EmptyArray == [k \in {} |-> 0]

\* ----------------------------------------------------------------- renderer

\* The wrap of setPixel: one width (height) is taken off a coordinate greater
\* than it, one is added to a negative coordinate.
WrapCoord(c, size) == IF c > size THEN c - size ELSE IF c < 0 THEN c + size ELSE c

\* The index setPixel(x, y) computes: pixelLoc.
PixelLoc(x, y) == WrapCoord(x, Cols) + (WrapCoord(y, Rows) * Cols)

\* The value of display[k] ^ 1 on a cell read as r.
Toggle(r) == BitXor(ToInt(r), 1)

\* setPixel setting the cell (display[pixelLoc] |= 1) instead of toggling it.
setPixelOr(display, x, y) ==
    LET pixelLoc == PixelLoc(x, y)
        bit == BitOr(ToInt(ArrayRead(display, pixelLoc)), 1)
    IN  [display |-> ArrayWrite(display, pixelLoc, bit), ret |-> (bit = 0)]

\* Renderer.setPixel(x, y): the display after the call and the value returned.
setPixel(display, x, y) ==
    LET pixelLoc == PixelLoc(x, y)
        bit == Toggle(ArrayRead(display, pixelLoc))
    IN  [display |-> ArrayWrite(display, pixelLoc, bit), ret |-> (bit = 0)]

\* Renderer.clear(): a fresh array of holes.
clear == EmptyArray

\* Renderer.render(): the cells of the canvas that get a filled rectangle.
render(display) == {k \in 0 .. (Cols * Rows - 1) : ToInt(ArrayRead(display, k)) # 0}

\* ----------------------------------------------------------------- keyboard

\* Keyboard.isKeyPressed(keyCode), as its callers test it: the stored value is
\* true (a key never pressed reads undefined, a released key false).
isKeyPressed(keysPressed, keyCode) ==
    keyCode \in DOMAIN keysPressed /\ keysPressed[keyCode]

\* ---------------------------------------------------------------------- CPU

\* The fields of an opcode.
OpX(opcode) == (opcode \div 256) % 16
OpY(opcode) == (opcode \div 16) % 16
OpKK(opcode) == opcode % 256
OpNNN(opcode) == opcode % 4096
OpN(opcode) == opcode % 16
\* (opcode & 0xF000) >> 12
OpGroup(opcode) == (opcode \div 4096) % 16

\* The fetch of cycle(): memory[pc] << 8 | memory[pc + 1].
Fetch(memory, pc) ==
    BitOr(ToInt(MemRead(memory, pc)) * 256, ToInt(MemRead(memory, JsAdd(pc, 1))))

\* The body of Dxyn's inner loop with the row taken from the register after Vx.
DrawPixelRowFromNext(s, x, row, col) ==
    LET sprite == MemRead(s.memory, s.i + row) IN
    IF BitAnd(ToInt(sprite), 128) > 0
    THEN LET r == setPixel(s.display, s.v[x] + col, s.v[(x + 1) % 16] + row)
         IN  [s EXCEPT !.display = r.display,
                       !.v = IF r.ret THEN [s.v EXCEPT ![15] = 1] ELSE s.v]
    ELSE s

\* The body of Dxyn's inner loop setting VF at every plot, erasing or not.
DrawPixelFlagsEveryPlot(s, x, row, col) ==
    LET sprite == MemRead(s.memory, s.i + row) IN
    IF BitAnd(ToInt(sprite), 128) > 0
    THEN LET r == setPixel(s.display, s.v[x] + col, s.v[x] + row)
         IN  [s EXCEPT !.display = r.display, !.v = [s.v EXCEPT ![15] = 1]]
    ELSE s

\* The body of Dxyn's inner loop for one (row, col): the row's sprite byte is
\* tested against 0x80 (the shift that follows the inner loop acts on a byte the
\* next row reads afresh, so every column tests the same bit).
DrawPixel(s, x, row, col) ==
    LET sprite == MemRead(s.memory, s.i + row) IN
    IF BitAnd(ToInt(sprite), 128) > 0
    THEN LET r == setPixel(s.display, s.v[x] + col, s.v[x] + row)
         IN  [s EXCEPT !.display = r.display,
                       !.v = IF r.ret THEN [s.v EXCEPT ![15] = 1] ELSE s.v]
    ELSE s

RECURSIVE DrawSprite(_, _, _, _)
\* Dxyn's two loops: iterations lo..hi of the 8 * height it makes, in order,
\* iteration k being (row, col) = (k \div 8, k % 8). The range is split in halves
\* (first half, then second half on its result), which keeps the order.
DrawSprite(s, x, lo, hi) ==
    IF lo > hi THEN s
    ELSE IF lo = hi THEN DrawPixel(s, x, lo \div 8, lo % 8)
    ELSE LET mid == (lo + hi) \div 2
         IN  CHOOSE t \in {DrawSprite(p, x, mid + 1, hi) :
                              p \in {DrawSprite(s, x, lo, mid)}} : TRUE

\* The 0nnn group with 00EE taking the oldest saved address (stack.shift()).
Exec0Shift(s, opcode) ==
    CASE opcode = 224 -> [s EXCEPT !.display = clear]
      [] opcode = 238 ->
            IF Len(s.stack) = 0
            THEN [s EXCEPT !.pc = Undefined]
            ELSE [s EXCEPT !.pc = s.stack[1], !.stack = Tail(s.stack)]
      [] OTHER -> s

\* The 0nnn group with SYS addr jumping to nnn.
Exec0SysJumps(s, opcode) ==
    CASE opcode = 224 -> [s EXCEPT !.display = clear]
      [] opcode = 238 ->
            IF Len(s.stack) = 0
            THEN [s EXCEPT !.pc = Undefined]
            ELSE [s EXCEPT !.pc = s.stack[Len(s.stack)],
                           !.stack = SubSeq(s.stack, 1, Len(s.stack) - 1)]
      [] OTHER -> [s EXCEPT !.pc = OpNNN(opcode)]

\* The 0nnn group: only 0000, 00E0 and 00EE do anything.
Exec0(s, opcode) ==
    CASE opcode = 224 -> [s EXCEPT !.display = clear]
      [] opcode = 238 ->
            IF Len(s.stack) = 0
            THEN [s EXCEPT !.pc = Undefined]
            ELSE [s EXCEPT !.pc = s.stack[Len(s.stack)],
                           !.stack = SubSeq(s.stack, 1, Len(s.stack) - 1)]
      [] OTHER -> s

\* 8xy4 with the carry tested on the byte stored in Vx, not on the sum.
Exec8xy4CarryFromStored(s, x, y) ==
    LET sum == ToUint8(s.v[x] + s.v[y])
        v1 == [s.v EXCEPT ![x] = sum]
        v2 == [v1 EXCEPT ![15] = 0]
        v3 == IF sum > 255 THEN [v2 EXCEPT ![15] = 1] ELSE v2
    IN  [s EXCEPT !.v = [v3 EXCEPT ![x] = sum]]

\* 8xy4: sum is the value of the compound assignment, not yet cut to a byte.
Exec8xy4(s, x, y) ==
    LET sum == s.v[x] + s.v[y]
        v1 == [s.v EXCEPT ![x] = ToUint8(sum)]
        v2 == [v1 EXCEPT ![15] = 0]
        v3 == IF sum > 255 THEN [v2 EXCEPT ![15] = 1] ELSE v2
    IN  [s EXCEPT !.v = [v3 EXCEPT ![x] = ToUint8(sum)]]

\* 8xy5: the flag is written first, then the operands are read.
Exec8xy5(s, x, y) ==
    LET v1 == [s.v EXCEPT ![15] = 0]
        v2 == IF v1[x] > v1[y] THEN [v1 EXCEPT ![15] = 1] ELSE v1
    IN  [s EXCEPT !.v = [v2 EXCEPT ![x] = ToUint8(v2[x] - v2[y])]]

\* 8xy7 storing the difference as it is, not cut to a byte.
Exec8xy7NoWrap(s, x, y) ==
    LET v1 == [s.v EXCEPT ![15] = 0]
        v2 == IF v1[y] > v1[x] THEN [v1 EXCEPT ![15] = 1] ELSE v1
    IN  [s EXCEPT !.v = [v2 EXCEPT ![x] = v2[y] - v2[x]]]

\* 8xy7
Exec8xy7(s, x, y) ==
    LET v1 == [s.v EXCEPT ![15] = 0]
        v2 == IF v1[y] > v1[x] THEN [v1 EXCEPT ![15] = 1] ELSE v1
    IN  [s EXCEPT !.v = [v2 EXCEPT ![x] = ToUint8(v2[y] - v2[x])]]

\* The 8xyn group.
Exec8(s, opcode) ==
    LET x == OpX(opcode)
        y == OpY(opcode)
        n == OpN(opcode)
    IN  CASE n = 0 -> [s EXCEPT !.v[x] = s.v[y]]
          [] n = 1 -> [s EXCEPT !.v[x] = BitOr(s.v[x], s.v[y])]
          [] n = 2 -> [s EXCEPT !.v[x] = BitAnd(s.v[x], s.v[y])]
          [] n = 3 -> [s EXCEPT !.v[x] = BitXor(s.v[x], s.v[y])]
          [] n = 4 -> Exec8xy4(s, x, y)
          [] n = 5 -> Exec8xy5(s, x, y)
          [] n = 6 ->
                LET v1 == [s.v EXCEPT ![15] = s.v[x] % 2]
                IN  [s EXCEPT !.v = [v1 EXCEPT ![x] = v1[x] \div 2]]
          [] n = 7 -> Exec8xy7(s, x, y)
          [] n = 14 ->
                LET v1 == [s.v EXCEPT ![15] = BitAnd(s.v[x], 128)]
                IN  [s EXCEPT !.v = [v1 EXCEPT ![x] = ToUint8(v1[x] * 2)]]
          [] OTHER -> s

\* The Exnn group.
ExecE(s, opcode) ==
    LET x == OpX(opcode)
        kk == OpKK(opcode)
    IN  CASE kk = 158 ->
                IF isKeyPressed(s.keysPressed, s.v[x])
                THEN [s EXCEPT !.pc = JsAdd(s.pc, 2)] ELSE s
          [] kk = 161 ->
                IF ~isKeyPressed(s.keysPressed, s.v[x])
                THEN [s EXCEPT !.pc = JsAdd(s.pc, 2)] ELSE s
          [] OTHER -> s

\* The loop of Fx55: memory[i + r] = v[r] for r = 0..x, each store made as
\* MemWrite makes it.
StoreRegisters(memory, v, i, x) ==
    [a \in DOMAIN memory |-> IF a - i \in 0 .. x THEN ToUint8(v[a - i]) ELSE memory[a]]

\* The loop of Fx65: registers 0..x read from memory (a read past the end
\* stores undefined, which a Uint8Array holds as 0).
LoadRegisters(memory, v, i, x) ==
    [r \in DOMAIN v |-> IF r <= x THEN ToUint8(MemRead(memory, i + r)) ELSE v[r]]

\* The Fxnn group.
ExecF(s, opcode) ==
    LET x == OpX(opcode)
        kk == OpKK(opcode)
    IN  CASE kk = 7 -> [s EXCEPT !.v[x] = ToUint8(s.delayTimer)]
          [] kk = 10 -> [s EXCEPT !.paused = TRUE, !.onNextKeyPress = x]
          [] kk = 21 -> [s EXCEPT !.delayTimer = s.v[x]]
          [] kk = 24 -> [s EXCEPT !.soundTimer = s.v[x]]
          [] kk = 30 -> [s EXCEPT !.i = s.i + s.v[x]]
          [] kk = 41 -> [s EXCEPT !.i = s.v[x] * 5]
          [] kk = 51 ->
                LET m1 == MemWrite(s.memory, s.i, s.v[x] \div 100)
                    m2 == MemWrite(m1, s.i + 1, (s.v[x] % 100) \div 10)
                IN  [s EXCEPT !.memory = MemWrite(m2, s.i + 2, s.v[x] % 10)]
          [] kk = 85 -> [s EXCEPT !.memory = StoreRegisters(s.memory, s.v, s.i, x)]
          [] kk = 101 -> [s EXCEPT !.v = LoadRegisters(s.memory, s.v, s.i, x)]
          [] OTHER -> s

\* The high nibbles the switch of executeInstruction has a case for.
DispatchGroups == 0 .. 15

\* executeInstruction(opcode) ends in the default case: throw new Error(...).
Throws(opcode) == OpGroup(opcode) \notin DispatchGroups

\* CPU.executeInstruction(opcode) on machine state s; rand is the value
\* Math.floor(Math.random() * 0xFF) yields if the instruction asks for one.
executeInstruction(s, opcode, rand) ==
    LET s0 == [s EXCEPT !.pc = JsAdd(s.pc, 2)]
        x == OpX(opcode)
        y == OpY(opcode)
        kk == OpKK(opcode)
        nnn == OpNNN(opcode)
        g == OpGroup(opcode)
    IN  CASE g = 0 -> Exec0(s0, opcode)
          [] g = 1 -> [s0 EXCEPT !.pc = nnn]
          [] g = 2 -> [s0 EXCEPT !.stack = Append(s0.stack, s0.pc), !.pc = nnn]
          [] g = 3 -> IF s0.v[x] = kk THEN [s0 EXCEPT !.pc = JsAdd(s0.pc, 2)] ELSE s0
          [] g = 4 -> IF s0.v[x] # kk THEN [s0 EXCEPT !.pc = JsAdd(s0.pc, 2)] ELSE s0
          [] g = 5 -> IF s0.v[x] = s0.v[y] THEN [s0 EXCEPT !.pc = JsAdd(s0.pc, 2)] ELSE s0
          [] g = 6 -> [s0 EXCEPT !.v[x] = kk]
          [] g = 7 -> [s0 EXCEPT !.v[x] = ToUint8(s0.v[x] + kk)]
          [] g = 8 -> Exec8(s0, opcode)
          [] g = 9 -> IF s0.v[x] # s0.v[y] THEN [s0 EXCEPT !.pc = JsAdd(s0.pc, 2)] ELSE s0
          [] g = 10 -> [s0 EXCEPT !.i = nnn]
          [] g = 11 -> [s0 EXCEPT !.pc = nnn + s0.v[0]]
          [] g = 12 -> [s0 EXCEPT !.v[x] = BitAnd(rand, kk)]
          [] g = 13 ->
                DrawSprite([s0 EXCEPT !.v[15] = 0], x, 0, 8 * OpN(opcode) - 1)
          [] g = 14 -> ExecE(s0, opcode)
          [] g = 15 -> ExecF(s0, opcode)
          [] OTHER -> s0

\* updateTimers() without its tests against 0.
updateTimersNoFloor(s) ==
    [s EXCEPT !.delayTimer = s.delayTimer - 1, !.soundTimer = s.soundTimer - 1]

\* CPU.updateTimers()
updateTimers(s) ==
    [s EXCEPT !.delayTimer = IF s.delayTimer > 0 THEN s.delayTimer - 1 ELSE s.delayTimer,
              !.soundTimer = IF s.soundTimer > 0 THEN s.soundTimer - 1 ELSE s.soundTimer]

\* playSound() with a play() that creates an oscillator whether or not one is set.
playSoundAlwaysCreates(s) ==
    IF s.soundTimer > 0
    THEN [s EXCEPT !.oscillator = TRUE, !.started = s.started + 1]
    ELSE (IF s.oscillator THEN [s EXCEPT !.oscillator = FALSE] ELSE s)

\* CPU.playSound() with Speaker.play(40) and Speaker.stop(): play creates an
\* oscillator only when there is none, stop drops the one there is.
playSound(s) ==
    IF s.soundTimer > 0
    THEN (IF ~s.oscillator
          THEN [s EXCEPT !.oscillator = TRUE, !.started = s.started + 1]
          ELSE s)
    ELSE (IF s.oscillator THEN [s EXCEPT !.oscillator = FALSE] ELSE s)

\* The values Math.floor(Math.random() * 0xFF) can give: Math.random() lies in
\* [0, 1), so the product lies in [0, 255) and its floor in 0..254.
RandValues == 0 .. 254

\* The values executeInstruction(opcode) can draw: only the Cxkk case calls
\* Math.random(); for every other opcode rand is never read.
Draws(opcode) == IF OpGroup(opcode) = 12 THEN RandValues ELSE {0}

\* cycle()'s loop without its test of paused.
CycleStepIgnoringPause(s) ==
    {executeInstruction(s, Fetch(s.memory, s.pc), rand) :
        rand \in Draws(Fetch(s.memory, s.pc))}

\* One iteration of cycle()'s loop: nothing when paused, else fetch and execute.
\* The set holds one state per value the random source may give.
CycleStep(s) ==
    IF s.paused THEN {s}
    ELSE {executeInstruction(s, Fetch(s.memory, s.pc), rand) :
        rand \in Draws(Fetch(s.memory, s.pc))}

RECURSIVE CycleLoop(_, _)
\* The states the machine can be in after n more iterations of cycle()'s loop.
CycleLoop(S, n) ==
    IF n = 0 THEN S ELSE UNION {CycleStep(t) : t \in CycleLoop(S, n - 1)}

\* cycle() calling updateTimers() whether paused or not.
cycleTimersAlways(s) ==
    { LET t2 == playSound(updateTimers(t))
      IN  [t2 EXCEPT !.canvas = render(t2.display)] : t \in CycleLoop({s}, Speed) }

\* CPU.cycle(): the loop, the timers unless paused, the sound, the render.
cycle(s) ==
    { LET t1 == IF ~t.paused THEN updateTimers(t) ELSE t
          t2 == playSound(t1)
      IN  [t2 EXCEPT !.canvas = render(t2.display)] : t \in CycleLoop({s}, Speed) }

\* The loaders' loops: memory[base + k] = bytes[k] for every k, each store
\* made as MemWrite makes it (a store past the allocated bytes is dropped).
CopyInto(memory, base, bytes) ==
    [a \in DOMAIN memory |->
        IF a - base \in 0 .. (Len(bytes) - 1) THEN ToUint8(bytes[a - base + 1])
        ELSE memory[a]]

\* CPU.loadSpritesIntoMemory()
loadSpritesIntoMemory(s) ==
    [s EXCEPT !.memory = CopyInto(s.memory, 0, sprites)]

\* CPU.loadProgramIntoMemory(program)
loadProgramIntoMemory(s, program) ==
    [s EXCEPT !.memory = CopyInto(s.memory, ProgramStart, program)]

\* onKeyDown without line 53: the callback stays registered after it is called.
onKeyDownKeepsCallback(s, which) ==
    LET key == KEYMAP(which)
        s1 == [s EXCEPT !.keysPressed = ArrayWrite(s.keysPressed, key, TRUE)]
    IN  IF s1.onNextKeyPress # Null /\ key # Undefined /\ key # 0
        THEN [s1 EXCEPT !.v[s1.onNextKeyPress] = ToUint8(key), !.paused = FALSE]
        ELSE s1

\* onKeyDown with a callback that writes the key but leaves paused set.
onKeyDownStaysPaused(s, which) ==
    LET key == KEYMAP(which)
        s1 == [s EXCEPT !.keysPressed = ArrayWrite(s.keysPressed, key, TRUE)]
    IN  IF s1.onNextKeyPress # Null /\ key # Undefined /\ key # 0
        THEN [s1 EXCEPT !.v[s1.onNextKeyPress] = ToUint8(key), !.onNextKeyPress = Null]
        ELSE s1

\* Keyboard.onKeyDown(event) with event.which = which. The callback Fx0A
\* registered writes the key into the register it captured and clears paused.
onKeyDown(s, which) ==
    LET key == KEYMAP(which)
        s1 == [s EXCEPT !.keysPressed = ArrayWrite(s.keysPressed, key, TRUE)]
    IN  IF s1.onNextKeyPress # Null /\ key # Undefined /\ key # 0
        THEN [s1 EXCEPT !.v[s1.onNextKeyPress] = ToUint8(key),
                        !.paused = FALSE,
                        !.onNextKeyPress = Null]
        ELSE s1

\* Keyboard.onKeyUp(event)
onKeyUp(s, which) ==
    [s EXCEPT !.keysPressed = ArrayWrite(s.keysPressed, KEYMAP(which), FALSE)]

\* chip8.js fps
Fps == 60

\* chip8.js init(): then = Date.now() and the font is loaded (loadRom only sends
\* a request; its answer is a later loadProgramIntoMemory).
init(s) == [loadSpritesIntoMemory(s) EXCEPT !.then = s.clock]

\* The test of step(): elapsed > fpsInterval, with fpsInterval = 1000 / fps and
\* elapsed a whole number of ms, or NaN before init().
FrameIsDue(elapsed) == IsNumber(elapsed) /\ elapsed * Fps > 1000

\* chip8.js step() called when Date.now() returns at: the states it may end in.
step(s, at) ==
    LET s1 == [s EXCEPT !.clock = at, !.now = at]
        elapsed == IF IsNumber(s1.then) THEN s1.now - s1.then ELSE NaN
    IN  IF FrameIsDue(elapsed) THEN cycle(s1) ELSE {s1}

\* ------------------------------------------------------------------- state

VARIABLES
    memory,         \* CPU.memory
    v,              \* CPU.v
    i,              \* CPU.i
    delayTimer,     \* CPU.delayTimer
    soundTimer,     \* CPU.soundTimer
    pc,             \* CPU.pc
    stack,          \* CPU.stack
    paused,         \* CPU.paused
    display,        \* Renderer.display
    canvas,         \* the cells the last render() filled
    keysPressed,    \* Keyboard.keysPressed
    onNextKeyPress, \* Keyboard.onNextKeyPress: Null or the register Fx0A captured
    oscillator,     \* Speaker.oscillator is set
    started,        \* oscillators created so far
    clock,          \* the host's wall clock, in ms: what Date.now() returns
    now,            \* chip8.js now
    then,           \* chip8.js then
    last,           \* the operation that led here: [op, arg, ret]
    prev,           \* the machine before that operation
    left            \* operations the behaviour may still make

\* The machine as one record.
Machine ==
    [memory |-> memory, v |-> v, i |-> i, delayTimer |-> delayTimer,
     soundTimer |-> soundTimer, pc |-> pc, stack |-> stack, paused |-> paused,
     display |-> display, canvas |-> canvas, keysPressed |-> keysPressed,
     onNextKeyPress |-> onNextKeyPress, oscillator |-> oscillator,
     started |-> started, clock |-> clock, now |-> now, then |-> then]

vars == <<memory, v, i, delayTimer, soundTimer, pc, stack, paused, display, canvas,
          keysPressed, onNextKeyPress, oscillator, started, clock, now, then,
          last, prev, left>>

\* The constructors of CPU, Renderer, Keyboard and Speaker.
Constructed ==
    [memory |-> [a \in 0 .. (MemorySize - 1) |-> 0],
     v |-> [r \in 0 .. 15 |-> 0],
     i |-> 0, delayTimer |-> 0, soundTimer |-> 0,
     pc |-> ProgramStart, stack |-> <<>>, paused |-> FALSE,
     display |-> EmptyArray, canvas |-> {},
     keysPressed |-> EmptyArray, onNextKeyPress |-> Null,
     oscillator |-> FALSE, started |-> 0,
     clock |-> 0, now |-> Undefined, then |-> Undefined]

\* The machine becomes t by operation op with argument arg returning ret.
Becomes(t, op, arg, ret) ==
    /\ left > 0
    /\ memory' = t.memory /\ v' = t.v /\ i' = t.i
    /\ delayTimer' = t.delayTimer /\ soundTimer' = t.soundTimer
    /\ pc' = t.pc /\ stack' = t.stack /\ paused' = t.paused
    /\ display' = t.display /\ canvas' = t.canvas
    /\ keysPressed' = t.keysPressed /\ onNextKeyPress' = t.onNextKeyPress
    /\ oscillator' = t.oscillator /\ started' = t.started
    /\ clock' = t.clock /\ now' = t.now /\ then' = t.then
    /\ last' = [op |-> op, arg |-> arg, ret |-> ret]
    /\ prev' = Machine
    /\ left' = left - 1

\* The machine starts as m, with n operations to come.
StartsAs(m, n) ==
    /\ memory = m.memory /\ v = m.v /\ i = m.i
    /\ delayTimer = m.delayTimer /\ soundTimer = m.soundTimer
    /\ pc = m.pc /\ stack = m.stack /\ paused = m.paused
    /\ display = m.display /\ canvas = m.canvas
    /\ keysPressed = m.keysPressed /\ onNextKeyPress = m.onNextKeyPress
    /\ oscillator = m.oscillator /\ started = m.started
    /\ clock = m.clock /\ now = m.now /\ then = m.then
    /\ last = [op |-> "new", arg |-> <<>>, ret |-> FALSE]
    /\ prev = m
    /\ left = n

\* ----------------------------------------------------------------- actions

\* cpu.cycle()
Cycle == \E t \in cycle(Machine) : Becomes(t, "cycle", <<>>, FALSE)

\* cpu.executeInstruction(opcode); the operation returns whether it threw.
ExecuteInstruction(opcode) ==
    \E rand \in Draws(opcode) :
        Becomes(executeInstruction(Machine, opcode, rand), "execute", <<opcode>>,
                Throws(opcode))

\* cpu.loadSpritesIntoMemory()
LoadSpritesIntoMemory == Becomes(loadSpritesIntoMemory(Machine), "loadSprites", <<>>, FALSE)

\* cpu.loadProgramIntoMemory(program)
LoadProgramIntoMemory(program) ==
    Becomes(loadProgramIntoMemory(Machine, program), "loadProgram", program, FALSE)

\* A keydown event reaches Keyboard.onKeyDown.
OnKeyDown(which) == Becomes(onKeyDown(Machine, which), "keydown", <<which>>, FALSE)

\* A keyup event reaches Keyboard.onKeyUp.
OnKeyUp(which) == Becomes(onKeyUp(Machine, which), "keyup", <<which>>, FALSE)

\* renderer.setPixel(x, y)
SetPixel(x, y) ==
    LET r == setPixel(display, x, y)
    IN  Becomes([Machine EXCEPT !.display = r.display], "setPixel", <<x, y>>, r.ret)

\* The host calls step() dt ms after the clock's last reading; the operation
\* records the clock and whether the call made a cycle().
Step(dt) ==
    \E t \in step(Machine, clock + dt) :
        Becomes(t, "step", <<clock + dt>>,
                FrameIsDue(IF IsNumber(then) THEN clock + dt - then ELSE NaN))

\* renderer.clear()
Clear == Becomes([Machine EXCEPT !.display = clear], "clear", <<>>, FALSE)

\* ------------------------------------------------- the machine, every operation

\* Operations per behaviour.
MaxSteps == 3

\* The opcodes handed to executeInstruction: SYS, CLS, RET, CALL 0x004,
\* LD V0 3, LD V1 0xFF, ADD V0 V1, DRW V0 V0 2, LD V0 K, LD V1 K, LD DT V0,
\* LD ST V0, LD [I] V1.
Opcodes == {0, 224, 238, 8196, 24579, 25087, 32788, 53250, 61450, 61706, 61461,
            61464, 61781}

\* The key codes of the events: X (key 0), 1 (key 1), V (key 0xF), Enter (not
\* in KEYMAP).
KeyCodes == {88, 49, 86, 13}

\* The programs handed to loadProgramIntoMemory: CLS; LD V0 K then CLS.
Programs == {<<0, 224>>, <<240, 10, 0, 224>>}

\* The coordinates handed to setPixel.
Pixels == {<<0, 0>>, <<63, 31>>}

Init == StartsAs(Constructed, MaxSteps)

Next ==
    \/ Cycle
    \/ \E opcode \in Opcodes : ExecuteInstruction(opcode)
    \/ LoadSpritesIntoMemory
    \/ \E program \in Programs : LoadProgramIntoMemory(program)
    \/ \E which \in KeyCodes : OnKeyDown(which)
    \/ \E which \in KeyCodes : OnKeyUp(which)
    \/ \E p \in Pixels : SetPixel(p[1], p[2])
    \/ Clear

Spec == Init /\ [][Next]_vars

\* ---------------------------------------------------------------- the claims

\* The last operation was executeInstruction(opcode) with opcode in group g.
ExecutedGroup(l, g) == l.op = "execute" /\ OpGroup(l.arg[1]) = g

\* The cells of the 64x32 grid that read 1.
Lit(d) == {k \in 0 .. (Cols * Rows - 1) : ToInt(ArrayRead(d, k)) = 1}

\* C1 (as claimed): with a key-wait pending, a key-press event for any of the 16
\* key values stores the key in the register Fx0A named, clears paused and clears
\* the callback.
C1_KeyPressResolvesWait ==
    (last.op = "keydown" /\ prev.onNextKeyPress # Null /\ prev.paused
        /\ KEYMAP(last.arg[1]) \in 0 .. 15)
    => /\ v[prev.onNextKeyPress] = KEYMAP(last.arg[1])
       /\ ~paused
       /\ onNextKeyPress = Null

\* C2: a cycle() made while paused leaves the program counter, the registers, I,
\* the call stack, memory, the framebuffer and both timers as they were, and the
\* machine paused.
C2_PausedCycleChangesNothing ==
    (last.op = "cycle" /\ prev.paused)
    => /\ pc = prev.pc /\ v = prev.v /\ i = prev.i /\ stack = prev.stack
       /\ memory = prev.memory /\ display = prev.display
       /\ delayTimer = prev.delayTimer /\ soundTimer = prev.soundTimer
       /\ paused

\* A cycle() was made on a machine that Fx0A had paused with both timers at 3,
\* and both timers are still 3.
C2_Witness ==
    /\ last.op = "cycle" /\ prev.paused /\ prev.onNextKeyPress # Null
    /\ prev.pc # ProgramStart
    /\ prev.delayTimer = 3 /\ prev.soundTimer = 3
    /\ delayTimer = 3 /\ soundTimer = 3

\* C8 (as claimed): with 00E0 loaded at the program start, the program counter
\* there and the machine running, one cycle() leaves every pixel of the grid 0.
C8_LoadedClsClearsScreen ==
    [][(/\ last.op = "loadProgram" /\ last.arg = <<0, 224>>
        /\ pc = ProgramStart /\ ~paused
        /\ last'.op = "cycle")
       => Lit(display') = {}]_vars

\* C10 (as claimed): loadSpritesIntoMemory leaves the 80 font bytes at 0..79,
\* loadProgramIntoMemory leaves the program at 0x200 on, and the first fetch
\* combines its first two bytes big-endian.
C10_LoadersFillMemory ==
    /\ last.op = "loadSprites"
        => \A k \in 0 .. 79 : MemRead(memory, k) = sprites[k + 1]
    /\ last.op = "loadProgram"
        => /\ \A k \in 1 .. Len(last.arg) :
                MemRead(memory, ProgramStart + k - 1) = last.arg[k]
           /\ pc = ProgramStart
                => Fetch(memory, pc) = last.arg[1] * 256 + last.arg[2]

\* ------------------------------------------------------- register arithmetic

\* Operations per behaviour of SpecAlu.
MaxAluSteps == 1

\* The values V0, V1 and VF start with, and the registers the opcodes name.
ByteSamples == {0, 1, 2, 127, 128, 254, 255}
AluRegisters == {0, 1, 15}

\* 8xy4 and 8xy5 for every x and y of AluRegisters.
AluOpcodes ==
    {32768 + 256 * x + 16 * y + n : x \in AluRegisters, y \in AluRegisters, n \in {4, 5}}

\* The machine after LD V0 a, LD V1 b, LD VF f.
InitAlu ==
    \E a \in ByteSamples, b \in ByteSamples, f \in ByteSamples :
        StartsAs(executeInstruction(
                     executeInstruction(
                         executeInstruction(Constructed, 24576 + a, 0),
                         24832 + b, 0),
                     28416 + f, 0),
                 MaxAluSteps)

NextAlu == \E opcode \in AluOpcodes : ExecuteInstruction(opcode)

SpecAlu == InitAlu /\ [][NextAlu]_vars

\* The last operation was executeInstruction of 8xyn.
Executed8(l, n) == ExecutedGroup(l, 8) /\ OpN(l.arg[1]) = n

\* C3 (as claimed): after 8xy4, Vx is (a + b) mod 256 and VF is the carry, for
\* every x and y.
C3_AddAsClaimed ==
    Executed8(last, 4)
    => LET x == OpX(last.arg[1])
           sum == prev.v[x] + prev.v[OpY(last.arg[1])]
       IN  /\ v[x] = sum % 256
           /\ v[15] = IF sum > 255 THEN 1 ELSE 0

\* C3 (amended): after 8xy4, Vx is (a + b) mod 256 for every x and y, and VF is
\* the carry when x is not 0xF (with x = 0xF the sum is stored over the flag).
C3_AddCarry ==
    Executed8(last, 4)
    => LET x == OpX(last.arg[1])
           sum == prev.v[x] + prev.v[OpY(last.arg[1])]
       IN  /\ v[x] = sum % 256
           /\ x # 15 => v[15] = IF sum > 255 THEN 1 ELSE 0

\* 8xy4 overflowed a register other than VF and set the carry.
C3_Witness ==
    /\ Executed8(last, 4)
    /\ OpX(last.arg[1]) # 15
    /\ prev.v[OpX(last.arg[1])] + prev.v[OpY(last.arg[1])] > 255
    /\ v[15] = 1

\* C4 (as claimed): after 8xy5, Vx is (a - b) mod 256 and VF is 1 if a > b else
\* 0, a and b being Vx and Vy before the instruction.
C4_SubAsClaimed ==
    Executed8(last, 5)
    => LET x == OpX(last.arg[1])
           a == prev.v[x]
           b == prev.v[OpY(last.arg[1])]
       IN  /\ v[x] = (a - b) % 256
           /\ v[15] = IF a > b THEN 1 ELSE 0

\* ------------------------------------------------------------ the framebuffer

\* Operations per behaviour of SpecPixel.
MaxPixelSteps == 2

\* The coordinates handed to setPixel: columns 0 and 63 and rows 0, 10 and 31,
\* each also one width (height) up and down.
PixelXs == {-64, -1, 0, 63, 64, 127}
PixelYs == {-32, -22, -1, 0, 10, 31, 32, 42, 63}

RECURSIVE SetPixels(_, _)
\* The display after setPixel on each coordinate pair of the sequence, in order.
SetPixels(d, coords) ==
    IF coords = <<>> THEN d
    ELSE SetPixels(setPixel(d, Head(coords)[1], Head(coords)[2]).display, Tail(coords))

\* The calls of setPixel made before a behaviour starts: none; one, lighting
\* cell 0; three, lighting cells 0, 2047 and 2112 (outside the grid); two on cell
\* 0, which leave it written as 0.
PixelStarts ==
    {<<>>, << <<0, 0>> >>, << <<0, 0>>, <<63, 31>>, <<64, 32>> >>,
     << <<0, 0>>, <<0, 0>> >>}

InitPixel ==
    \E coords \in PixelStarts :
        StartsAs([Constructed EXCEPT !.display = SetPixels(EmptyArray, coords)],
                 MaxPixelSteps)

NextPixel == \E x \in PixelXs, y \in PixelYs : SetPixel(x, y)

SpecPixel == InitPixel /\ [][NextPixel]_vars

\* The cells of the display array, inside the grid or not, that read 1.
LitCells(d) == {k \in DOMAIN d : d[k] = 1}

\* C5 (as claimed): setPixel on a coordinate one width (height) above or below a
\* column 0..63 (row 0..31) toggles the same cell and returns the same value as
\* setPixel on that column (row).
C5_WrapAsClaimed ==
    last.op = "setPixel"
    => LET c == setPixel(prev.display, last.arg[1] % Cols, last.arg[2] % Rows)
       IN  display = c.display /\ last.ret = c.ret

\* C6 (as claimed): a second setPixel with the same coordinates restores every
\* pixel, and returns true exactly when the pixel was 1 before the first call.
C6_TwiceAsClaimed ==
    [][(last.op = "setPixel" /\ last'.op = "setPixel" /\ last'.arg = last.arg)
       => /\ LitCells(display') = LitCells(prev.display)
          /\ last'.ret <=>
                ToInt(ArrayRead(prev.display, PixelLoc(last.arg[1], last.arg[2]))) = 1]_vars

\* C6 (amended): a second setPixel with the same coordinates restores every
\* pixel, and returns true exactly when the pixel was 0 before the first call
\* (the first call returns true exactly when it was 1).
C6_TwiceRestores ==
    [][(last.op = "setPixel" /\ last'.op = "setPixel" /\ last'.arg = last.arg)
       => /\ LitCells(display') = LitCells(prev.display)
          /\ last'.ret <=>
                ToInt(ArrayRead(prev.display, PixelLoc(last.arg[1], last.arg[2]))) = 0
          /\ last.ret <=>
                ToInt(ArrayRead(prev.display, PixelLoc(last.arg[1], last.arg[2]))) = 1]_vars

\* The second of two calls was a setPixel(63, 31) that lit cell 2047 again and
\* returned false: the cell was lit, with cells 0 and 2112, before the first
\* call, which erased it.
C6_Witness ==
    /\ last.op = "setPixel" /\ last.arg = <<63, 31>> /\ ~last.ret
    /\ left = MaxPixelSteps - 2
    /\ LitCells(prev.display) = {0, 2112}
    /\ ArrayRead(prev.display, 2047) = 0
    /\ LitCells(display) = {0, 2047, 2112}

\* -------------------------------------------------------------- call and return

\* Operations per behaviour of SpecCall.
MaxCallSteps == 4

\* SYS, RET, JP 0x208, CALL 0x004, CALL 0x300.
CallOpcodes == {0, 238, 4616, 8196, 8960}

InitCall == StartsAs(Constructed, MaxCallSteps)

NextCall == \E opcode \in CallOpcodes : ExecuteInstruction(opcode)

SpecCall == InitCall /\ [][NextCall]_vars

\* The last operation was executeInstruction(0x00EE).
ExecutedRet(l) == l.op = "execute" /\ l.arg[1] = 238

\* C7: 2nnn saves the advanced program counter on top of the call stack and jumps
\* to nnn; 00EE on a non-empty stack returns to the address on top and takes it
\* off; so 2nnn followed at once by 00EE leaves the program counter at p + 2 and
\* the stack as it was before the call.
C7_CallReturn ==
    [][/\ ExecutedGroup(last', 2)
            => /\ stack' = Append(stack, JsAdd(pc, 2))
               /\ pc' = OpNNN(last'.arg[1])
       /\ (ExecutedRet(last') /\ stack # <<>>)
            => /\ pc' = stack[Len(stack)]
               /\ stack' = SubSeq(stack, 1, Len(stack) - 1)
       /\ (ExecutedGroup(last, 2) /\ ExecutedRet(last'))
            => /\ pc' = JsAdd(prev.pc, 2)
               /\ stack' = prev.stack]_vars

\* 00EE returned from the inner of two nested calls, to the address the inner
\* call saved, leaving the outer call's address on the stack.
C7_Witness ==
    /\ ExecutedRet(last)
    /\ Len(prev.stack) = 2 /\ prev.stack[1] # prev.stack[2]
    /\ pc = prev.stack[2] /\ stack = <<prev.stack[1]>>

\* ------------------------------------------------------------------- timers

\* Operations per behaviour of SpecTimer.
MaxTimerSteps == 5

\* LD V0 3, LD V0 0xFF, LD DT V0, LD ST V0, LD V0 K.
TimerOpcodes == {24579, 24831, 61461, 61464, 61450}

InitTimer == StartsAs(Constructed, MaxTimerSteps)

NextTimer ==
    \/ Cycle
    \/ \E opcode \in TimerOpcodes : ExecuteInstruction(opcode)
    \/ OnKeyDown(49)

SpecTimer == InitTimer /\ [][NextTimer]_vars

\* A timer one frame later.
CountDown(n) == IF n > 0 THEN n - 1 ELSE 0

\* C9: both timers stay in 0..255; a cycle() that ends its instructions running
\* leaves each timer one less than the instructions left it, or 0 if it was 0
\* (one that ends them paused leaves them as the instructions left them); and a
\* running cycle() whose fetches all fall outside memory, so that no instruction
\* writes a timer, takes each timer from t to max(t - 1, 0).
C9_TimersCountDown ==
    /\ delayTimer \in 0 .. 255 /\ soundTimer \in 0 .. 255
    /\ last.op = "cycle"
        => \E t \in CycleLoop({prev}, Speed) :
              /\ t.paused = paused /\ t.v = v /\ t.pc = pc
              /\ delayTimer = IF t.paused THEN t.delayTimer ELSE CountDown(t.delayTimer)
              /\ soundTimer = IF t.paused THEN t.soundTimer ELSE CountDown(t.soundTimer)
    /\ (last.op = "cycle" /\ ~prev.paused /\ prev.pc \notin -1 .. (MemorySize - 1))
        => /\ delayTimer = CountDown(prev.delayTimer)
           /\ soundTimer = CountDown(prev.soundTimer)

\* A running cycle() took the delay timer from 3 to 2 and left the sound timer,
\* which was 0, at 0.
C9_Witness ==
    /\ last.op = "cycle" /\ ~paused
    /\ prev.delayTimer = 3 /\ delayTimer = 2
    /\ prev.soundTimer = 0 /\ soundTimer = 0

\* ------------------------------------------------------------------- frames

\* Operations per behaviour of SpecFrame.
MaxFrameSteps == 4

\* The ms between two callbacks of the host.
Delays == {0, 5, 12, 17, 40}

InitFrame == StartsAs(init(Constructed), MaxFrameSteps)

NextFrame ==
    \/ \E dt \in Delays : Step(dt)
    \/ LoadProgramIntoMemory(<<0, 224>>)

SpecFrame == InitFrame /\ [][NextFrame]_vars

\* C11 (as claimed): a step() that follows a step() which made a cycle() makes
\* one itself only if a frame interval (1000 / 60 ms) has passed between them.
C11_FramesAnIntervalApart ==
    [][(last.op = "step" /\ last.ret /\ last'.op = "step" /\ last'.ret)
       => (last'.arg[1] - last.arg[1]) * Fps >= 1000]_vars

\* -------------------------------------------------------------------- audio

\* C12: after every cycle(), paused or not, the speaker holds an oscillator
\* exactly when the sound timer is then greater than 0; the cycle created one
\* oscillator if the speaker held none and the timer is greater than 0, and none
\* otherwise (play on a sounding speaker and stop on a silent one do nothing).
C12_ToneFollowsSoundTimer ==
    last.op = "cycle"
    => /\ oscillator <=> soundTimer > 0
       /\ started = prev.started + (IF ~prev.oscillator /\ soundTimer > 0 THEN 1 ELSE 0)

\* A cycle() found the tone sounding and the sound timer still above 0 after
\* its update: the one oscillator there was is still the only one created.
C12_Witness ==
    /\ last.op = "cycle" /\ prev.oscillator /\ oscillator
    /\ soundTimer > 0 /\ started = 1

\* ----------------------------------------------------------------- key events

\* C13: with no key-wait pending, a keydown or keyup event changes nothing but
\* the held keys, of which it changes only the event's own key (held after a
\* keydown, not held after a keyup); and a keydown that resolves a key-wait
\* (clears paused) leaves no callback registered, so that the keydowns after it
\* fall under the first case.
C13_KeyEventsTouchOnlyKeys ==
    /\ (last.op \in {"keydown", "keyup"} /\ prev.onNextKeyPress = Null)
        => /\ [Machine EXCEPT !.keysPressed = prev.keysPressed] = prev
           /\ \A k \in 0 .. 15 :
                isKeyPressed(keysPressed, k)
                    <=> IF k = KEYMAP(last.arg[1]) THEN last.op = "keydown"
                        ELSE isKeyPressed(prev.keysPressed, k)
    /\ (last.op = "keydown" /\ prev.paused /\ ~paused) => onNextKeyPress = Null

\* After key 1 resolved a key-wait into V0, a keydown of key F arrived with no
\* wait pending: V0 still holds 1 and both keys are held.
C13_Witness ==
    /\ last.op = "keydown" /\ prev.onNextKeyPress = Null
    /\ KEYMAP(last.arg[1]) = 15 /\ v[0] = 1
    /\ isKeyPressed(keysPressed, 15) /\ isKeyPressed(keysPressed, 1)

\* ------------------------------------------------------------------ decoding

\* Operations per behaviour of SpecDecode.
MaxDecodeSteps == 3

\* 0123, 00E0, 00E1, 00EE, CALL 0x300, 5010, 5011, 9010, 9011, LD V0 5, LD V1 5,
\* 8104, 8108, 810F, E000, E09E, F000, F01E, F0FF, D011.
DecodeOpcodes ==
    {291, 224, 225, 238, 8960, 20496, 20497, 36880, 36881, 24581, 24837,
     33028, 33032, 33039, 57344, 57502, 61440, 61470, 61695, 53265}

InitDecode == StartsAs(loadSpritesIntoMemory(Constructed), MaxDecodeSteps)

NextDecode == \E opcode \in DecodeOpcodes : ExecuteInstruction(opcode)

SpecDecode == InitDecode /\ [][NextDecode]_vars

\* The low bits of the opcode match no operation of a group that has a second
\* dispatch: 0nnn, 8xyn, Exnn, Fxnn.
UnmatchedInGroup(opcode) ==
    LET g == OpGroup(opcode) IN
    \/ g = 0 /\ opcode \notin {224, 238}
    \/ g = 8 /\ OpN(opcode) \notin (0 .. 7) \cup {14}
    \/ g = 14 /\ OpKK(opcode) \notin {158, 161}
    \/ g = 15 /\ OpKK(opcode) \notin {7, 10, 21, 24, 30, 41, 51, 85, 101}

\* The machine is as before the instruction but for pc, which is 2 further.
OnlyAdvanced == Machine = [prev EXCEPT !.pc = JsAdd(prev.pc, 2)]

\* C14 (as claimed): no executed opcode is rejected, and one whose low bits match
\* no operation of its group, 5xyn and 9xyn with n not 0 included, changes
\* nothing except advancing the program counter by 2.
C14_UnmatchedAsClaimed ==
    last.op = "execute"
    => /\ ~last.ret
       /\ (\/ UnmatchedInGroup(last.arg[1])
           \/ OpGroup(last.arg[1]) \in {5, 9} /\ OpN(last.arg[1]) # 0)
          => OnlyAdvanced

\* C14 (amended): no executed opcode is rejected (every high nibble has a case);
\* one whose low bits match no operation of 0nnn, 8xyn, Exnn or Fxnn changes
\* nothing except advancing the program counter by 2; 5xyn and 9xyn act as 5xy0
\* and 9xy0 whatever n is.
C14_UnmatchedAreSkipped ==
    last.op = "execute"
    => LET opcode == last.arg[1]
           equal == prev.v[OpX(opcode)] = prev.v[OpY(opcode)]
           skip == IF OpGroup(opcode) = 5 THEN equal ELSE ~equal
       IN  /\ ~last.ret
           /\ UnmatchedInGroup(opcode) => OnlyAdvanced
           /\ OpGroup(opcode) \in {5, 9}
                => Machine = [prev EXCEPT !.pc = JsAdd(prev.pc, IF skip THEN 4 ELSE 2)]

\* 0123 was executed on a machine with a lit display and a call on the stack,
\* and only advanced the program counter.
C14_Witness ==
    /\ last.op = "execute" /\ last.arg[1] = 291
    /\ Lit(prev.display) # {} /\ prev.stack # <<>>
    /\ pc = prev.pc + 2 /\ display = prev.display /\ stack = prev.stack

\* ------------------------------------------------------------------ drawing

\* Operations per behaviour of SpecDraw.
MaxDrawSteps == 2

\* The values V0 starts with (the origin of most draws), and V1, VF and I.
OriginSamples == {0, 28, 60, 255}
OtherSamples == {0, 28}
AddressSamples == {0, 5, 14}

\* D001, D005, D00F, D010, D015, D105, DF01, DF05.
DrawOpcodes == {53249, 53253, 53263, 53264, 53269, 53509, 57089, 57093}

\* The machine after loadSpritesIntoMemory, LD V0 a, LD V1 b, LD VF f, LD I addr.
InitDraw ==
    \E a \in OriginSamples, b \in OtherSamples, f \in OtherSamples, addr \in AddressSamples :
        StartsAs(executeInstruction(
                   executeInstruction(
                     executeInstruction(
                       executeInstruction(loadSpritesIntoMemory(Constructed), 24576 + a, 0),
                       24832 + b, 0),
                     28416 + f, 0),
                   40960 + addr, 0),
                 MaxDrawSteps)

NextDraw == \E opcode \in DrawOpcodes : ExecuteInstruction(opcode)

SpecDraw == InitDraw /\ [][NextDraw]_vars

\* The register Dxyn takes its origin from holds, once VF is reset, this value.
Origin(m, opcode) == IF OpX(opcode) = 15 THEN 0 ELSE m.v[OpX(opcode)]

\* Bit k of byte b.
Bit(b, k) == (b \div (2 ^ k)) % 2

\* The (row, col) pairs of the sprite Dxyn reads whose bit 7 - col is set.
SetBits(m, opcode) ==
    {rc \in (0 .. (OpN(opcode) - 1)) \X (0 .. 7) :
        Bit(ToInt(MemRead(m.memory, m.i + rc[1])), 7 - rc[2]) = 1}

\* The cells that read differently in displays d and e.
Toggled(d, e) == (LitCells(d) \ LitCells(e)) \cup (LitCells(e) \ LitCells(d))

\* C15 (as claimed): a Dxyn whose sprite stays inside the grid toggles one pixel
\* per set bit of the sprite rows memory[I .. I + n - 1], and leaves memory and I
\* unchanged.
C15_OnePixelPerSetBit ==
    (/\ ExecutedGroup(last, 13)
     /\ Origin(prev, last.arg[1]) + 7 < Cols
     /\ Origin(prev, last.arg[1]) + OpN(last.arg[1]) - 1 < Rows)
    => /\ Cardinality(Toggled(prev.display, display))
            = Cardinality(SetBits(prev, last.arg[1]))
       /\ memory = prev.memory /\ i = prev.i

\* The opcode with its y field replaced by y.
WithY(opcode, y) == opcode - 16 * OpY(opcode) + 16 * y

\* The registers and values the draws of C16 are varied by.
OtherRegisters == {0, 1, 2, 15}
OtherValues == {0, 28, 255}

\* The values Vx holds while Dxyn plots: with x = 0xF it is the flag, 0 until a
\* pixel is erased and 1 from then on.
Origins(m, opcode) == IF OpX(opcode) = 15 THEN {0, 1} ELSE {m.v[OpX(opcode)]}

\* C16: every cell Dxyn toggles is at column Vx + col and row Vx + row for a row
\* and column of the sprite, Vx being read at each plot; and the same draw made with any other y field, or
\* on a machine where a register other than Vx holds another value, ends with
\* the same framebuffer and the same VF.
C16_OriginIsVxOnBothAxes ==
    ExecutedGroup(last, 13)
    => LET opcode == last.arg[1]
       IN  /\ Toggled(prev.display, display)
                \subseteq {PixelLoc(o + rc[2], o + rc[1]) :
                              o \in Origins(prev, opcode),
                              rc \in (0 .. (OpN(opcode) - 1)) \X (0 .. 7)}
           /\ \A y \in OtherRegisters, val \in OtherValues :
                LET other == IF y = OpX(opcode) THEN prev
                             ELSE [prev EXCEPT !.v[y] = val]
                    drawn == executeInstruction(other, WithY(opcode, y), 0)
                IN  drawn.display = display /\ drawn.v[15] = v[15]

\* D015 drew with V0 = 28 and V1 = 0: the sprite's first pixel is at column 28
\* of row 28, and nothing is on row 0.
C16_Witness ==
    /\ last.op = "execute" /\ last.arg[1] = 53269
    /\ prev.v[0] = 28 /\ prev.v[1] = 0
    /\ PixelLoc(28, 28) \in LitCells(display)
    /\ LitCells(display) \cap (0 .. (Cols - 1)) = {}

\* C17: after Dxyn, VF is 1 if the draw turned a pixel that was set to 0, and 0
\* otherwise, whatever VF held before and whichever register is the origin (the
\* cells one draw plots are all different, so the pixels erased are the cells
\* lit before the draw and not after).
C17_FlagIsCollision ==
    ExecutedGroup(last, 13)
    => v[15] = IF LitCells(prev.display) \ LitCells(display) # {} THEN 1 ELSE 0

\* A DFyn drew over lit pixels: it erased some and VF is 1.
C17_Witness ==
    /\ ExecutedGroup(last, 13) /\ OpX(last.arg[1]) = 15
    /\ LitCells(prev.display) \ LitCells(display) # {}
    /\ v[15] = 1

\* C18 (as claimed): every cell setPixel has toggled is a cell of the 64x32 grid:
\* its index is in 0 .. 2047.
C18_CellsInsideGrid == DOMAIN display \subseteq 0 .. (Cols * Rows - 1)

\* ----------------------------------------------------------------- schedule

\* Operations per behaviour of SpecSchedule.
MaxScheduleSteps == 3

\* The four bytes at 0..3 a frame starts on: LD V0 K; CLS, LD V1 K; SYS, SYS;
\* LD V4 5, LD DT V4; JP 0.
SchedulePrograms ==
    {<<240, 10, 0, 0>>, <<0, 224, 241, 10>>, <<0, 0, 0, 0>>,
     <<100, 5, 244, 21>>, <<16, 0, 0, 0>>}

\* The values the timers start with.
TimerSamples == {0, 1, 3}

RECURSIVE ExecuteAll(_, _)
\* The machine after executeInstruction of each opcode of the sequence, in order
\* (none of the sequences it is given holds a Cxkk, so no value is drawn).
ExecuteAll(s, opcodes) ==
    IF opcodes = <<>> THEN s
    ELSE ExecuteAll(executeInstruction(s, Head(opcodes), 0), Tail(opcodes))

\* The machine after LD V0..V3 with the program's bytes, LD I 0, LD [I] V3 (the
\* program is now at 0..3), LD V4 t, LD DT V4, LD ST V4, JP 0.
InitSchedule ==
    \E program \in SchedulePrograms, t \in TimerSamples :
        StartsAs(ExecuteAll(Constructed,
                            <<24576 + program[1], 24832 + program[2],
                              25088 + program[3], 25344 + program[4],
                              40960, 62293, 25600 + t, 62485, 62488, 4096>>),
                 MaxScheduleSteps)

NextSchedule ==
    \/ Cycle
    \/ \E which \in {49, 88} : OnKeyDown(which)
    \/ OnKeyUp(49)

SpecSchedule == InitSchedule /\ [][NextSchedule]_vars

RECURSIVE Run(_, _)
\* The machine after fetching and executing k instructions in a row from s.
Run(s, k) ==
    IF k = 0 THEN s
    ELSE LET t == Run(s, k - 1) IN executeInstruction(t, Fetch(t.memory, t.pc), 0)

\* C19: a cycle() that starts running executes instructions one after the other
\* until 10 have executed or one of them (Fx0A) has paused the machine; if the
\* machine is then paused the timers are as the instructions left them, else
\* each is counted down once; the tone is then on exactly when the sound timer
\* is above 0, and the canvas shows the framebuffer as the instructions left it.
C19_FrameSchedule ==
    (last.op = "cycle" /\ ~prev.paused)
    => LET n == CHOOSE k \in 0 .. Speed :
                    /\ k = Speed \/ Run(prev, k).paused
                    /\ \A j \in 0 .. (k - 1) : ~Run(prev, j).paused
           e == Run(prev, n)
       IN  /\ pc = e.pc /\ v = e.v /\ i = e.i /\ stack = e.stack
           /\ memory = e.memory /\ display = e.display
           /\ paused = e.paused /\ onNextKeyPress = e.onNextKeyPress
           /\ delayTimer = IF e.paused THEN e.delayTimer ELSE CountDown(e.delayTimer)
           /\ soundTimer = IF e.paused THEN e.soundTimer ELSE CountDown(e.soundTimer)
           /\ oscillator <=> soundTimer > 0
           /\ canvas = render(display)

\* A frame that started running at 0 executed CLS and then LD V1 K, stopped
\* there (pc is 4) paused, and left the delay timer at 3.
C19_Witness ==
    /\ last.op = "cycle" /\ ~prev.paused /\ paused
    /\ prev.pc = 0 /\ pc = 4 /\ onNextKeyPress = 1
    /\ prev.delayTimer = 3 /\ delayTimer = 3

\* ---------------------------------------------------------- save and restore

\* Operations per behaviour of SpecSave.
MaxSaveSteps == 3

\* LD I 0, LD I 0xF, LD I 0x300, ADD I V0, LD F V0, LD V0 9, and Fx55 and Fx65
\* with x = 0, 1, 0xF.
SaveOpcodes ==
    {40960, 40975, 41728, 61470, 61481, 24585,
     61525, 61781, 65365, 61541, 61797, 65381}

\* The machine after LD V0 a, LD V1 b.
InitSave ==
    \E a \in {7, 200}, b \in {7, 200} :
        StartsAs(ExecuteAll(Constructed, <<24576 + a, 24832 + b>>), MaxSaveSteps)

NextSave == \E opcode \in SaveOpcodes : ExecuteInstruction(opcode)

SpecSave == InitSave /\ [][NextSave]_vars

\* The last operation was executeInstruction of Fx55.
ExecutedSave(l) == ExecutedGroup(l, 15) /\ OpKK(l.arg[1]) = 85

\* C20 (as claimed): Fx55 writes memory[I .. I + x] with V0..Vx and changes
\* nothing else; and overwriting V0..Vx and then executing Fx65 with the same x
\* and I brings V0..Vx back, leaving I and the registers above x alone.
C20_SaveThenRestore ==
    ExecutedSave(last)
    => LET x == OpX(last.arg[1]) IN
       /\ Machine = [prev EXCEPT !.pc = pc, !.memory = memory]
       /\ \A r \in 0 .. x : MemRead(memory, i + r) = v[r]
       /\ \A a \in DOMAIN memory : a \notin i .. (i + x) => memory[a] = prev.memory[a]
       /\ \A junk \in {0, 9} :
            LET over == [Machine EXCEPT !.v = [r \in 0 .. 15 |->
                                                  IF r <= x THEN junk ELSE v[r]]]
                back == executeInstruction(over, last.arg[1] + 16, 0)
            IN  back.v = v /\ back.i = i

\* ----------------------------------------------------------------- addresses

\* Address a is an element of the allocated memory.
InRange(m, a) == a \in DOMAIN m.memory

\* The addresses the last instruction read or wrote through I, given the
\* machine before it: Dxyn reads I .. I + n - 1, Fx33 writes I .. I + 2, Fx55
\* writes and Fx65 reads I .. I + x.
TouchedThroughI(m, opcode) ==
    CASE OpGroup(opcode) = 13 -> {m.i + r : r \in 0 .. (OpN(opcode) - 1)}
      [] OpGroup(opcode) = 15 /\ OpKK(opcode) = 51 -> {m.i, m.i + 1, m.i + 2}
      [] OpGroup(opcode) = 15 /\ OpKK(opcode) \in {85, 101} ->
            {m.i + r : r \in 0 .. OpX(opcode)}
      [] OTHER -> {}

\* C21 (as claimed): the program counter is always a defined 16-bit value; the
\* first fetch of a cycle() that starts running reads two addresses of the
\* allocated memory; and every address an instruction reads or writes through I
\* is one of the allocated memory.
C21_AddressesInRange ==
    /\ pc \in 0 .. 65535
    /\ (last.op = "cycle" /\ ~prev.paused)
        => InRange(prev, prev.pc) /\ InRange(prev, JsAdd(prev.pc, 1))
    /\ last.op = "execute"
        => \A a \in TouchedThroughI(prev, last.arg[1]) : InRange(prev, a)

\* C22 (as claimed): 00EE on an empty call stack raises a failure, and never
\* leaves the machine running with an undefined program counter.
C22_UnderflowIsSignalled ==
    (ExecutedRet(last) /\ prev.stack = <<>>)
    => /\ last.ret
       /\ paused \/ IsNumber(pc)

\* ------------------------------------------------------------ register bytes

\* Operations per behaviour of SpecByte.
MaxByteSteps == 1

\* ADD V0 0xFF, ADD V0 1, 8014, 8015, 8017, 801E, 8105, RND V0 0xFF, LD V0 K.
ByteOpcodes == {28927, 28673, 32788, 32789, 32791, 32798, 33029, 49407, 61450}

\* The machine after LD V0 a, LD V1 b, and then LD V0 K or not.
InitByte ==
    \E a \in ByteSamples, b \in ByteSamples, wait \in BOOLEAN :
        StartsAs(ExecuteAll(Constructed,
                            <<24576 + a, 24832 + b>>
                                \o (IF wait THEN <<61450>> ELSE <<>>)),
                 MaxByteSteps)

NextByte ==
    \/ \E opcode \in ByteOpcodes : ExecuteInstruction(opcode)
    \/ OnKeyDown(86)

SpecByte == InitByte /\ [][NextByte]_vars

\* C23: every register always holds an integer in 0..255; no instruction raises
\* a failure; and 7xkk, 8xy4, 8xy5, 8xy7 and 8xyE, on operands other than the
\* flag register, leave in Vx the sum, difference or double modulo 256.
C23_RegistersAreBytes ==
    /\ \A r \in 0 .. 15 : v[r] \in 0 .. 255
    /\ last.op = "execute"
        => LET opcode == last.arg[1]
               x == OpX(opcode)
               a == prev.v[x]
               b == prev.v[OpY(opcode)]
               plain == x # 15 /\ OpY(opcode) # 15
           IN  /\ ~last.ret
               /\ OpGroup(opcode) = 7 => v[x] = (a + OpKK(opcode)) % 256
               /\ (Executed8(last, 4) /\ plain) => v[x] = (a + b) % 256
               /\ (Executed8(last, 5) /\ plain) => v[x] = (a - b) % 256
               /\ (Executed8(last, 7) /\ plain) => v[x] = (b - a) % 256
               /\ (Executed8(last, 14) /\ plain) => v[x] = (2 * a) % 256

\* 8017 subtracted a larger V0 from V1: V0 holds the difference plus 256.
C23_Witness ==
    /\ last.op = "execute" /\ last.arg[1] = 32791
    /\ prev.v[1] < prev.v[0]
    /\ v[0] = prev.v[1] - prev.v[0] + 256

\* --------------------------------------------------------- pause and callback

\* C24: under every interleaving of cycles, key presses and key releases, the
\* machine is paused exactly when a callback is registered; the keyboard has one
\* slot for it, holding the register to write; a cycle() that pauses the machine
\* did so by an Fx0A, and the register is that Fx0A's x; and the register stays
\* the same for as long as the machine stays paused.
C24_PausedIffCallback ==
    /\ paused <=> onNextKeyPress # Null
    /\ onNextKeyPress \in {Null} \cup (0 .. 15)
    /\ (last.op = "cycle" /\ ~prev.paused /\ paused)
        => LET opcode == Fetch(memory, pc - 2)
           IN  /\ OpGroup(opcode) = 15 /\ OpKK(opcode) = 10
               /\ onNextKeyPress = OpX(opcode)
    /\ (prev.paused /\ paused) => onNextKeyPress = prev.onNextKeyPress

\* A key release reached a machine that F10A, executed by a cycle(), had paused:
\* it is still paused and the callback still writes V1.
C24_Witness ==
    /\ last.op = "keyup" /\ prev.paused /\ paused
    /\ onNextKeyPress = 1 /\ Fetch(memory, pc - 2) = 61706

====
